---- MODULE Spec2Model ----
(***************************************************************************)
(* Model of the AI Expense Analysis System:                                *)
(*   - src/app.py     : the classification relay (API key rotation, the    *)
(*                      safe_generate retry wrapper, the two endpoints);   *)
(*   - src/pdf-csv.py : the statement extractor (is_date, is_amount,       *)
(*                      extract_transactions, save_to_csv, main).          *)
(* Text is modelled as a sequence of one-character strings, so the regular *)
(* expressions and the string operations of the code are computed          *)
(* character by character.                                                 *)
(***************************************************************************)
EXTENDS Integers, Sequences, FiniteSets, TLC

VARIABLES
    \* ---- classification relay (src/app.py) ----
    api_key_cycle,   \* position of the itertools.cycle over API_KEYS
    call_log,        \* history: key position used by each get_genai_model call, in global order
    req,             \* per request: position in the handler and its history
    \* ---- is_amount / is_date on one string (src/pdf-csv.py) ----
    text,            \* the argument
    verdict,         \* "none" before the call, then "true" or "false"
    \* ---- extract_transactions / save_to_csv / main (src/pdf-csv.py) ----
    pc,              \* position in main / extract_transactions
    transactions,    \* the retained sequence
    origin,          \* history: for each retained record, what it was built from
    expected,        \* history: records of the candidate rows/groups that passed validation
    page_num,        \* pages scanned so far
    rows_read,       \* table rows read so far (whole document)
    first_row,       \* the next row read is table[0]
    row,             \* the table row last read ("none" before)
    lines,           \* raw lines read so far on the current text page
    lines_read,      \* text lines read so far (whole document)
    current_transaction, \* None (FALSE) or True, as in the text branch
    transaction_data,    \* accumulated lines of the open group
    closed,          \* history: groups closed (evaluated) on the current text page
    file             \* "none" or "written": the CSV file

vars == <<api_key_cycle, call_log, req, text, verdict, pc, transactions, origin,
          expected, page_num, rows_read, first_row, row, lines, lines_read,
          current_transaction, transaction_data, closed, file>>

relayVars == <<api_key_cycle, call_log, req>>
amountVars == <<text, verdict>>
extractVars == <<pc, transactions, origin, expected, page_num, rows_read, first_row,
                 row, lines, lines_read, current_transaction, transaction_data,
                 closed, file>>

(***************************************************************************)
(* Bounds                                                                  *)
(***************************************************************************)
NumKeys == 2        \* size of the API key pool
NumRequests == 2    \* concurrent HTTP requests
MaxLen == 5         \* length of the strings given to is_amount / is_date
MaxPages == 2       \* pages of a document
MaxRows == 3        \* table rows of a document
MaxLines == 8       \* text lines of a document (line-by-line scan)

(***************************************************************************)
(* Characters and strings                                                  *)
(***************************************************************************)
IsDigit(c) == c \in {"0", "1", "2", "3", "4", "5", "6", "7", "8", "9"}

IsSpace(c) == c \in {" ", "\t", "\n", "\r"}

AllDigits(s, from, to) == \A i \in from..to : IsDigit(s[i])

RECURSIVE lstrip(_)
lstrip(s) == IF s # <<>> /\ IsSpace(Head(s)) THEN lstrip(Tail(s)) ELSE s

RECURSIVE rstrip(_)
rstrip(s) ==
    IF s # <<>> /\ IsSpace(s[Len(s)]) THEN rstrip(SubSeq(s, 1, Len(s) - 1)) ELSE s

\* str.strip()
strip(s) == rstrip(lstrip(s))

\* str.replace(',', '')
replace_commas(s) == SelectSeq(s, LAMBDA c : c # ",")

\* ' '.join(s.split()): whitespace runs collapsed to one space, ends trimmed
RECURSIVE collapse(_)
collapse(s) ==
    IF s = <<>> THEN <<>>
    ELSE IF IsSpace(Head(s))
         THEN <<" ">> \o collapse(lstrip(s))
         ELSE <<Head(s)>> \o collapse(Tail(s))

join_split(s) == collapse(strip(s))

\* ' '.join(list)
RECURSIVE join(_)
join(l) ==
    IF l = <<>> THEN <<>>
    ELSE IF Len(l) = 1 THEN l[1]
    ELSE l[1] \o <<" ">> \o join(Tail(l))

\* the strings of length at most n over alphabet A
Strings(A, n) == UNION {[1..k -> A] : k \in 0..n}

(***************************************************************************)
(* Classification relay: src/app.py                                        *)
(***************************************************************************)
\* a wrapper that allows one attempt more
retries_m == 3 + 1

retries == 3

\* the pool, by position
API_KEYS == 0..(NumKeys - 1)

Requests == 1..NumRequests

Endpoints == {"analyze", "analyze_insights"}

\* str(e) of the exceptions an attempt can raise
ErrMsgs == { <<"e", "4", "2", "9">>, <<"4", "2", "e", "9">> }

\* the return value of a successful attempt
OK == <<"o", "k">>

\* a test for "42" instead of "429"
Contains429_m(msg) ==
    \E i \in 1..(Len(msg) - 1) : msg[i] = "4" /\ msg[i + 1] = "2"

\* "429" in str(e)
Contains429(msg) ==
    \E i \in 1..(Len(msg) - 2) : msg[i] = "4" /\ msg[i + 1] = "2" /\ msg[i + 2] = "9"

\* the except clause of the endpoints: every Exception raised by safe_generate,
\* the HTTPException of the exhausted retries included, is caught and re-raised
\* as HTTPException(500); a returned value is the 200 response
endpoint_status(signal) == IF signal = "return" THEN 200 ELSE 500

NewRequest ==
    [pc |-> "idle", ep |-> "none", attempt |-> 0, keys |-> <<>>, outcomes |-> <<>>,
     sleeps |-> 0, signal |-> "none", raised |-> <<>>, signal_status |-> 0, status |-> 0]

\* a get_genai_model that configures the key at hand without advancing the cycle
get_genai_model_m(r) ==
    /\ api_key_cycle' = api_key_cycle
    /\ call_log' = Append(call_log, api_key_cycle)

\* get_genai_model, called by run() for request r: api_key = next(api_key_cycle)
\* and genai.configure(api_key=api_key); the call is synchronous
get_genai_model(r) ==
    /\ api_key_cycle' = (api_key_cycle + 1) % NumKeys
    /\ call_log' = Append(call_log, api_key_cycle)

\* the key the call just made has configured
configured_key == call_log'[Len(call_log')]

\* a request arrives at one of the two endpoints (requests are numbered in
\* the order of their arrival); safe_generate enters its loop and run() goes
\* up to its first suspension point, the awaited model call
Request(r, ep) ==
    /\ req[r].pc = "idle"
    /\ IF r = 1 THEN TRUE ELSE req[r - 1].pc # "idle"
    /\ 0 < retries
    /\ get_genai_model(r)
    /\ req' = [req EXCEPT ![r].pc = "awaiting", ![r].ep = ep, ![r].attempt = 0,
                          ![r].keys = Append(@, configured_key)]

\* the awaited attempt returns
ModelSucceeds(r) ==
    /\ req[r].pc = "awaiting"
    /\ req' = [req EXCEPT ![r].pc = "done",
                          ![r].outcomes = Append(@, OK),
                          ![r].signal = "return",
                          ![r].signal_status = 200,
                          ![r].status = endpoint_status("return")]
    /\ UNCHANGED <<api_key_cycle, call_log>>

\* the awaited attempt raises (the model call or the validation of its
\* answer): a "429" message starts the cooldown, any other is re-raised
ModelFails(r, msg) ==
    /\ req[r].pc = "awaiting"
    /\ IF Contains429(msg)
       THEN req' = [req EXCEPT ![r].pc = "sleeping",
                               ![r].outcomes = Append(@, msg),
                               ![r].sleeps = @ + 1]
       ELSE req' = [req EXCEPT ![r].pc = "done",
                               ![r].outcomes = Append(@, msg),
                               ![r].signal = "raise",
                               ![r].raised = msg,
                               ![r].signal_status = 0,
                               ![r].status = endpoint_status("raise")]
    /\ UNCHANGED <<api_key_cycle, call_log>>

\* asyncio.sleep(1) is over and the loop continues with the next attempt, up
\* to its awaited model call
Wake(r) ==
    /\ req[r].pc = "sleeping"
    /\ req[r].attempt + 1 < retries
    /\ get_genai_model(r)
    /\ req' = [req EXCEPT ![r].pc = "awaiting", ![r].attempt = @ + 1,
                          ![r].keys = Append(@, configured_key)]

\* asyncio.sleep(1) is over and the loop is over: safe_generate raises
\* HTTPException(status_code=429), which the endpoint's except clause receives
Exhausted(r) ==
    /\ req[r].pc = "sleeping"
    /\ req[r].attempt + 1 >= retries
    /\ req' = [req EXCEPT ![r].pc = "done",
                          ![r].attempt = @ + 1,
                          ![r].signal = "HTTPException",
                          ![r].signal_status = 429,
                          ![r].status = endpoint_status("HTTPException")]
    /\ UNCHANGED <<api_key_cycle, call_log>>

RelayInit ==
    /\ api_key_cycle = 0
    /\ call_log = <<>>
    /\ req = [r \in Requests |-> NewRequest]

(***************************************************************************)
(* Row validator: src/pdf-csv.py                                           *)
(***************************************************************************)
\* re.match(r'\d{2}/\d{2}/\d{4}', text): a match at the start of the text
is_date(t) ==
    /\ t # <<>>
    /\ t # <<"-">>
    /\ Len(t) >= 10
    /\ AllDigits(t, 1, 2) /\ t[3] = "/" /\ AllDigits(t, 4, 5) /\ t[6] = "/"
    /\ AllDigits(t, 7, 10)

\* re.match(r'^-?\d{1,3}(,\d{3})*(\.\d{2})?$', t): m minus signs, d leading
\* digits, g groups of a comma and three digits, f characters of fraction; '$'
\* also matches before a final newline
amount_regex(t) ==
    \E m \in 0..1, d \in 1..3, g \in 0..(Len(t) \div 4), f \in {0, 3}, nl \in 0..1 :
        /\ Len(t) = m + d + 4 * g + f + nl
        /\ m = 1 => t[1] = "-"
        /\ AllDigits(t, m + 1, m + d)
        /\ \A k \in 0..(g - 1) :
              /\ t[m + d + 4 * k + 1] = ","
              /\ AllDigits(t, m + d + 4 * k + 2, m + d + 4 * k + 4)
        /\ f = 3 => /\ t[m + d + 4 * g + 1] = "."
                    /\ AllDigits(t, m + d + 4 * g + 2, m + d + 4 * g + 3)
        /\ nl = 1 => t[Len(t)] = "\n"

is_amount(t) ==
    /\ t # <<>>
    /\ t # <<"-">>
    /\ amount_regex(replace_commas(t))

\* the characters of the strings given to is_amount
AmountAlphabet == {"1", ",", ".", "-", "a"}

AmountInit ==
    /\ text \in Strings(AmountAlphabet, MaxLen)
    /\ verdict = "none"

\* one call of is_amount
CheckAmount ==
    /\ verdict = "none"
    /\ verdict' = IF is_amount(text) THEN "true" ELSE "false"
    /\ UNCHANGED text

(***************************************************************************)
(* extract_transactions: src/pdf-csv.py                                    *)
(***************************************************************************)
headers ==
    << <<"S", " ", "N", "o", ".">>,
       <<"V", "a", "l", "u", "e", " ", "D", "a", "t", "e">>,
       <<"T", "r", "a", "n", "s", "a", "c", "t", "i", "o", "n", " ", "D", "a", "t", "e">>,
       <<"C", "h", "e", "q", "u", "e", " ", "N", "u", "m", "b", "e", "r">>,
       <<"T", "r", "a", "n", "s", "a", "c", "t", "i", "o", "n", " ", "R", "e", "m", "a", "r", "k", "s">>,
       <<"W", "i", "t", "h", "d", "r", "a", "w", "a", "l", " ", "A", "m", "o", "u", "n", "t", " ", "(", "I", "N", "R", ")">>,
       <<"D", "e", "p", "o", "s", "i", "t", " ", "A", "m", "o", "u", "n", "t", " ", "(", "I", "N", "R", ")">>,
       <<"B", "a", "l", "a", "n", "c", "e", " ", "(", "I", "N", "R", ")">> >>

\* an absent cell of a table row
None == <<"None">>

MinCells == 8

\* a row test without the None check
row_ok_m(r) == Len(r) >= MinCells

\* len(row) >= 8 and all(cell is not None for cell in row)
row_ok(r) == Len(r) >= MinCells /\ \A i \in 1..Len(r) : r[i] # None

\* the transaction built from a table row
row_transaction(r) ==
    [S_No |-> strip(r[1]), Value_Date |-> strip(r[2]),
     Transaction_Date |-> strip(r[3]), Cheque_Number |-> strip(r[4]),
     Transaction_Remarks |-> join_split(r[5]),
     Withdrawal_Amount |-> strip(r[6]), Deposit_Amount |-> strip(r[7]),
     Balance |-> strip(r[8])]

\* the transaction built from the lines of a text group (len >= 8)
group_transaction(d) ==
    [S_No |-> d[1], Value_Date |-> d[2], Transaction_Date |-> d[3],
     Cheque_Number |-> d[4],
     Transaction_Remarks |-> join(SubSeq(d, 5, Len(d) - 3)),
     Withdrawal_Amount |-> d[Len(d) - 2], Deposit_Amount |-> d[Len(d) - 1],
     Balance |-> d[Len(d)]]

\* "Validate key fields"
keep(transaction) ==
    is_date(transaction.Transaction_Date) /\ is_amount(transaction.Balance)

\* any(h in table[0] for h in headers)
is_header_row(r) == \E h \in 1..Len(headers) : \E i \in 1..Len(r) : r[i] = headers[h]

\* a row loop in which an incomplete row discards what was retained
table_row_m(T, r) ==
    IF row_ok(r)
    THEN IF keep(row_transaction(r))
         THEN [transactions |-> Append(T.transactions, row_transaction(r)),
               origin |-> Append(T.origin, [kind |-> "table", cells |-> r])]
         ELSE T
    ELSE [transactions |-> <<>>, origin |-> <<>>]

\* the body of "for row in table", on T = [transactions, origin]
table_row(T, r) ==
    IF row_ok(r)
    THEN IF keep(row_transaction(r))
         THEN [transactions |-> Append(T.transactions, row_transaction(r)),
               origin |-> Append(T.origin, [kind |-> "table", cells |-> r])]
         ELSE T
    ELSE T

\* re.match(r'^\d+\s*$', line)
is_serial(line) ==
    \E d \in 1..Len(line) :
        /\ AllDigits(line, 1, d)
        /\ \A i \in (d + 1)..Len(line) : IsSpace(line[i])

\* "Save previous transaction if valid" / "Save the last transaction", on
\* S = [current_transaction, transaction_data, transactions, origin, closed];
\* closed records that the group was evaluated
save_group(S) ==
    LET d == S.transaction_data
        S1 == [S EXCEPT !.closed = Append(@, d)]
    IN  IF Len(d) >= MinCells /\ keep(group_transaction(d))
        THEN [S1 EXCEPT !.transactions = Append(@, group_transaction(d)),
                        !.origin = Append(@, [kind |-> "text", cells |-> d])]
        ELSE S1

\* a line loop without the skip of empty lines
text_line_m(S, raw) ==
    LET line == strip(raw) IN
    IF is_serial(line)
    THEN LET S1 == IF S.current_transaction THEN save_group(S) ELSE S
         IN  [S1 EXCEPT !.transaction_data = <<line>>,
                        !.current_transaction = TRUE]
    ELSE IF S.current_transaction
         THEN [S EXCEPT !.transaction_data = Append(@, line)]
         ELSE S

\* the body of "for line in lines"
text_line(S, raw) ==
    LET line == strip(raw) IN
    IF line = <<>> THEN S
    ELSE IF is_serial(line)
         THEN LET S1 == IF S.current_transaction THEN save_group(S) ELSE S
              IN  [S1 EXCEPT !.transaction_data = <<line>>,
                             !.current_transaction = TRUE]
         ELSE IF S.current_transaction
              THEN [S EXCEPT !.transaction_data = Append(@, line)]
              ELSE S

\* after the loop
text_page_end(S) == IF S.current_transaction THEN save_group(S) ELSE S

\* current_transaction = None; transaction_data = [] at the start of a text page
text_page_begin(txs, org) ==
    [current_transaction |-> FALSE, transaction_data |-> <<>>,
     transactions |-> txs, origin |-> org, closed |-> <<>>]

RECURSIVE text_lines(_, _)
text_lines(S, ls) ==
    IF ls = <<>> THEN S ELSE text_lines(text_line(S, Head(ls)), Tail(ls))

\* the whole text branch for one page
text_page(txs, org, ls) == text_page_end(text_lines(text_page_begin(txs, org), ls))

\* float(): the decimal literals (sign, digits, at most one point, at least one
\* digit, surrounding whitespace allowed); exponents, inf, nan and underscores
\* need characters that no cell of the model contains
float_ok(s) ==
    LET t == strip(s) IN
    \E sg \in 0..1, ip \in 0..Len(t), pt \in 0..1, fp \in 0..Len(t) :
        /\ Len(t) = sg + ip + pt + fp
        /\ ip + fp >= 1
        /\ pt = 0 => fp = 0
        /\ sg = 1 => t[1] \in {"-", "+"}
        /\ AllDigits(t, sg + 1, sg + ip)
        /\ pt = 1 => t[sg + ip + 1] = "."
        /\ AllDigits(t, sg + ip + pt + 1, Len(t))

\* no default for the empty cell
fill_empty_m(c) == c

\* Series.replace('', '0.0')
fill_empty(c) == IF c = <<>> THEN <<"0", ".", "0">> ELSE c

\* save_to_csv: the three astype(float) conversions raise on an unparseable
\* cell, the except clause logs, and nothing is written
save_to_csv(txs) ==
    IF txs = <<>> THEN "none"
    ELSE IF \A i \in 1..Len(txs) :
              /\ float_ok(replace_commas(fill_empty(txs[i].Withdrawal_Amount)))
              /\ float_ok(replace_commas(fill_empty(txs[i].Deposit_Amount)))
              /\ float_ok(replace_commas(txs[i].Balance))
         THEN "written"
         ELSE "none"

(***************************************************************************)
(* Inputs of the extractor                                                 *)
(***************************************************************************)
DateText == <<"1", "1", "/", "1", "1", "/", "1", "1", "1", "1">>
AmountText == <<"1", ".", "0", "0">>
BigAmountText == <<"1", ",", "1", "1", "1", ".", "0", "0">>
Dash == <<"-">>

BaseRow ==
    << <<"1">>, DateText, <<" ">> \o DateText, Dash, <<"a", " ", " ", "b">>,
       <<>>, AmountText, <<" ">> \o AmountText >>

\* the table rows a page can hold
RowKinds ==
    { BaseRow,
      [BaseRow EXCEPT ![6] = Dash],
      Append([BaseRow EXCEPT ![7] = BigAmountText], <<"x">>),
      SubSeq(BaseRow, 1, 7),
      [BaseRow EXCEPT ![1] = None],
      [BaseRow EXCEPT ![3] = Dash],
      [BaseRow EXCEPT ![8] = BigAmountText],
      headers,
      [BaseRow EXCEPT ![1] = headers[1]] }

SerialLine == <<"7", " ">>
BlankLine == <<" ">>

\* the raw lines of a text page, for the line-by-line scan
LineKinds == {SerialLine, BlankLine, DateText, AmountText}

GoodGroup ==
    <<SerialLine, DateText, DateText, Dash, <<"a">>, AmountText, AmountText, AmountText>>

\* whole text pages
SamplePages ==
    { GoodGroup,
      [GoodGroup EXCEPT ![5] = BlankLine, ![6] = BigAmountText] \o <<Dash, <<"b">>, AmountText, AmountText>>,
      SubSeq(GoodGroup, 1, 7),
      [GoodGroup EXCEPT ![3] = Dash],
      <<DateText>> \o SubSeq(GoodGroup, 1, 7) \o GoodGroup,
      [GoodGroup EXCEPT ![6] = Dash] }

(***************************************************************************)
(* What the scan is expected to retain                                     *)
(***************************************************************************)
\* a candidate table row that is complete and passes the two validations
ValidRow(r) ==
    /\ Len(r) >= 8
    /\ \A i \in 1..Len(r) : r[i] # None
    /\ is_date(strip(r[3]))
    /\ is_amount(strip(r[8]))

DigitsOnly(t) == t # <<>> /\ AllDigits(t, 1, Len(t))

NonEmpty(t) == t # <<>>

Trimmed(ls) == [i \in 1..Len(ls) |-> strip(ls[i])]

\* the first digits-only line after position i, or the end of the page
NextSerial(T, i) ==
    IF \E j \in (i + 1)..Len(T) : DigitsOnly(T[j])
    THEN CHOOSE j \in (i + 1)..Len(T) :
            DigitsOnly(T[j]) /\ \A k \in (i + 1)..(j - 1) : ~DigitsOnly(T[k])
    ELSE Len(T) + 1

RECURSIVE GroupsFrom(_, _)
GroupsFrom(T, i) ==
    IF i > Len(T) THEN <<>>
    ELSE IF DigitsOnly(T[i])
         THEN <<SelectSeq(SubSeq(T, i, NextSerial(T, i) - 1), NonEmpty)>>
                  \o GroupsFrom(T, NextSerial(T, i))
         ELSE GroupsFrom(T, i + 1)

\* the transaction groups of a page, as the text fallback is described
GroupsOf(ls) == GroupsFrom(Trimmed(ls), 1)

ValidGroup(g) == Len(g) >= 8 /\ is_date(g[3]) /\ is_amount(g[Len(g)])

(***************************************************************************)
(* main / extract_transactions as a state machine                          *)
(***************************************************************************)
textVars == <<lines, lines_read, current_transaction, transaction_data, closed>>
tableVars == <<rows_read, first_row, row>>

ExtractInit ==
    /\ pc = "start"
    /\ transactions = <<>>
    /\ origin = <<>>
    /\ expected = <<>>
    /\ page_num = 0
    /\ rows_read = 0
    /\ first_row = FALSE
    /\ row = <<>>
    /\ lines = <<>>
    /\ lines_read = 0
    /\ current_transaction = FALSE
    /\ transaction_data = <<>>
    /\ closed = <<>>
    /\ file = "none"

\* pdfplumber.open succeeds
Open ==
    /\ pc = "start"
    /\ pc' = "page"
    /\ UNCHANGED <<transactions, origin, expected, page_num, file>>
    /\ UNCHANGED <<tableVars, textVars>>

\* pdfplumber raises (on open or on a page): the outer except returns []
PdfError ==
    /\ pc = "start" \/ (pc = "page" /\ page_num < MaxPages)
    /\ pc' = "failed"
    /\ transactions' = <<>>
    /\ origin' = <<>>
    /\ UNCHANGED <<expected, page_num, file>>
    /\ UNCHANGED <<tableVars, textVars>>

\* the next page has tables
TablesPage ==
    /\ pc = "page"
    /\ page_num < MaxPages
    /\ rows_read < MaxRows
    /\ pc' = "table"
    /\ page_num' = page_num + 1
    /\ first_row' = TRUE
    /\ UNCHANGED <<transactions, origin, expected, rows_read, row, file>>
    /\ UNCHANGED textVars

\* the next row of the current table: table[0] is dropped when it holds a
\* header label, every other row goes through the body of the row loop
TableRow(r) ==
    /\ pc = "table"
    /\ rows_read < MaxRows
    /\ rows_read' = rows_read + 1
    /\ row' = r
    /\ first_row' = FALSE
    /\ IF first_row /\ is_header_row(r)
       THEN UNCHANGED <<transactions, origin, expected>>
       ELSE LET T == table_row([transactions |-> transactions, origin |-> origin], r)
            IN  /\ transactions' = T.transactions
                /\ origin' = T.origin
                /\ expected' = IF ValidRow(r) THEN Append(expected, r) ELSE expected
    /\ UNCHANGED <<pc, page_num, file>>
    /\ UNCHANGED textVars

\* the current table is over and the page has another one
NextTable ==
    /\ pc = "table"
    /\ ~first_row
    /\ rows_read < MaxRows
    /\ first_row' = TRUE
    /\ UNCHANGED <<pc, transactions, origin, expected, page_num, rows_read, row, file>>
    /\ UNCHANGED textVars

\* the last table of the page is over
EndTables ==
    /\ pc = "table"
    /\ ~first_row
    /\ pc' = "page"
    /\ UNCHANGED <<transactions, origin, expected, page_num, file>>
    /\ UNCHANGED <<tableVars, textVars>>

\* the next page has no tables and no text: continue
NoTextPage ==
    /\ pc = "page"
    /\ page_num < MaxPages
    /\ page_num' = page_num + 1
    /\ UNCHANGED <<pc, transactions, origin, expected, file>>
    /\ UNCHANGED <<tableVars, textVars>>

\* the next page has no tables: the text branch on the whole page
TextPage(p) ==
    /\ pc = "page"
    /\ page_num < MaxPages
    /\ page_num' = page_num + 1
    /\ LET S == text_page(transactions, origin, p)
       IN  /\ transactions' = S.transactions
           /\ origin' = S.origin
    /\ expected' = expected \o SelectSeq(GroupsOf(p), ValidGroup)
    /\ UNCHANGED <<pc, file>>
    /\ UNCHANGED <<tableVars, textVars>>

\* the text branch, line by line: the page starts
TextPageBegin ==
    /\ pc = "page"
    /\ page_num < MaxPages
    /\ lines_read < MaxLines
    /\ pc' = "text"
    /\ page_num' = page_num + 1
    /\ LET S == text_page_begin(transactions, origin)
       IN  /\ current_transaction' = S.current_transaction
           /\ transaction_data' = S.transaction_data
           /\ closed' = S.closed
    /\ lines' = <<>>
    /\ UNCHANGED <<transactions, origin, expected, lines_read, file>>
    /\ UNCHANGED tableVars

TextState ==
    [current_transaction |-> current_transaction, transaction_data |-> transaction_data,
     transactions |-> transactions, origin |-> origin, closed |-> closed]

\* one iteration of "for line in lines"
TextLine(l) ==
    /\ pc = "text"
    /\ lines_read < MaxLines
    /\ lines_read' = lines_read + 1
    /\ lines' = Append(lines, l)
    /\ LET S == text_line(TextState, l)
       IN  /\ current_transaction' = S.current_transaction
           /\ transaction_data' = S.transaction_data
           /\ transactions' = S.transactions
           /\ origin' = S.origin
           /\ closed' = S.closed
    /\ UNCHANGED <<pc, expected, page_num, file>>
    /\ UNCHANGED tableVars

\* the lines of the page are over: "Save the last transaction"
TextPageEnd ==
    /\ pc = "text"
    /\ lines # <<>>
    /\ pc' = "page"
    /\ LET S == text_page_end(TextState)
       IN  /\ current_transaction' = S.current_transaction
           /\ transaction_data' = S.transaction_data
           /\ transactions' = S.transactions
           /\ origin' = S.origin
           /\ closed' = S.closed
    /\ expected' = expected \o SelectSeq(GroupsOf(lines), ValidGroup)
    /\ UNCHANGED <<page_num, lines, lines_read, file>>
    /\ UNCHANGED tableVars

\* the pages are over: return transactions, headers
Return ==
    /\ pc = "page"
    /\ pc' = "returned"
    /\ UNCHANGED <<transactions, origin, expected, page_num, file>>
    /\ UNCHANGED <<tableVars, textVars>>

\* main: "if transactions: save_to_csv(...)"
MainSave ==
    /\ pc \in {"returned", "failed"}
    /\ transactions # <<>>
    /\ pc' = "done"
    /\ file' = save_to_csv(transactions)
    /\ UNCHANGED <<transactions, origin, expected, page_num>>
    /\ UNCHANGED <<tableVars, textVars>>

\* main: "No transactions found in the PDF."
MainNothing ==
    /\ pc \in {"returned", "failed"}
    /\ transactions = <<>>
    /\ pc' = "done"
    /\ UNCHANGED <<transactions, origin, expected, page_num, file>>
    /\ UNCHANGED <<tableVars, textVars>>

(***************************************************************************)
(* Specifications                                                          *)
(***************************************************************************)
Init == RelayInit /\ text = <<>> /\ verdict = "none" /\ ExtractInit

RelayNext ==
    \E r \in Requests :
        \/ \E ep \in Endpoints : Request(r, ep)
        \/ ModelSucceeds(r)
        \/ \E msg \in ErrMsgs : ModelFails(r, msg)
        \/ Wake(r)
        \/ Exhausted(r)

\* the relay under concurrent requests
Next == RelayNext /\ UNCHANGED amountVars /\ UNCHANGED extractVars

Spec == Init /\ [][Next]_vars

\* is_amount on every string of the bound
InitAmount == RelayInit /\ AmountInit /\ ExtractInit

NextAmount == CheckAmount /\ UNCHANGED relayVars /\ UNCHANGED extractVars

SpecAmount == InitAmount /\ [][NextAmount]_vars

\* the batch tool on documents of table pages and whole text pages
ExtractNext ==
    \/ Open
    \/ PdfError
    \/ TablesPage
    \/ \E r \in RowKinds : TableRow(r)
    \/ NextTable
    \/ EndTables
    \/ NoTextPage
    \/ \E p \in SamplePages : TextPage(p)
    \/ Return
    \/ MainSave
    \/ MainNothing

NextExtract == ExtractNext /\ UNCHANGED relayVars /\ UNCHANGED amountVars

SpecExtract == Init /\ [][NextExtract]_vars

\* the text fallback, line by line, on every page of the bound
TextNext ==
    \/ Open
    \/ TextPageBegin
    \/ \E l \in LineKinds : TextLine(l)
    \/ TextPageEnd

NextText == TextNext /\ UNCHANGED relayVars /\ UNCHANGED amountVars

SpecText == Init /\ [][NextText]_vars

(***************************************************************************)
(* Claims                                                                  *)
(***************************************************************************)
\* the rate-limit signal: the message holds the substring "429"
RateLimited(msg) == \E i \in 1..(Len(msg) - 2) : SubSeq(msg, i, i + 2) = <<"4", "2", "9">>

AllRateLimited(os) == \A i \in 1..Len(os) : os[i] # OK /\ RateLimited(os[i])

\* C1: when every attempt of a request fails with a rate-limit error and the
\* three attempts are exhausted, the HTTP response has status 429, not 500.
C1_ExhaustedAnswers429 ==
    \A r \in Requests :
        (req[r].pc = "done" /\ Len(req[r].outcomes) = 3 /\ AllRateLimited(req[r].outcomes))
            => req[r].status = 429

\* C2: safe_generate makes at most 3 attempts; after k-1 rate-limit failures
\* and a success on attempt k it returns that result after exactly k
\* invocations; after 3 rate-limit failures it has invoked the operation
\* exactly 3 times and raises the exhausted signal (HTTPException 429), not
\* the error of the operation.
C2_BoundedRetry ==
    \A r \in Requests :
        LET os == req[r].outcomes
            n == Len(os)
        IN  /\ n <= 3
            /\ Len(req[r].keys) <= 3
            /\ req[r].pc \in {"sleeping", "done"} => Len(req[r].keys) = n
            /\ (n >= 1 /\ os[n] = OK) =>
                  /\ AllRateLimited(SubSeq(os, 1, n - 1))
                  /\ req[r].pc = "done"
                  /\ req[r].signal = "return"
            /\ (req[r].pc = "done" /\ AllRateLimited(os)) =>
                  /\ n = 3
                  /\ req[r].signal = "HTTPException"
                  /\ req[r].signal_status = 429
                  /\ req[r].raised = <<>>

\* C2 witness: one request succeeded on its third attempt, another exhausted
\* its attempts.
C2_Witness ==
    /\ \E r \in Requests :
          /\ req[r].pc = "done" /\ req[r].signal = "return"
          /\ Len(req[r].outcomes) = 3 /\ Len(req[r].keys) = 3
    /\ \E r \in Requests :
          /\ req[r].pc = "done" /\ req[r].signal = "HTTPException"
          /\ AllRateLimited(req[r].outcomes)

\* C3: a failure whose message does not contain "429" is propagated at once
\* and unchanged: it is the last invocation, no cooldown follows it, and the
\* exhausted signal is not raised.
C3_OtherFailurePropagates ==
    \A r \in Requests :
        \A i \in 1..Len(req[r].outcomes) :
            (req[r].outcomes[i] # OK /\ ~RateLimited(req[r].outcomes[i])) =>
                /\ i = Len(req[r].outcomes)
                /\ Len(req[r].keys) = i
                /\ req[r].sleeps = i - 1
                /\ req[r].pc = "done"
                /\ req[r].signal = "raise"
                /\ req[r].raised = req[r].outcomes[i]
                /\ req[r].signal_status # 429

\* C3 witness: a request whose second attempt failed with another error.
C3_Witness ==
    \E r \in Requests :
        /\ req[r].pc = "done"
        /\ Len(req[r].outcomes) = 2
        /\ RateLimited(req[r].outcomes[1])
        /\ ~RateLimited(req[r].outcomes[2]) /\ req[r].outcomes[2] # OK

\* C4: the i-th call of get_genai_model since process start uses the key at
\* position (i-1) mod N, in the global order of the calls of all requests,
\* endpoints and retry attempts, whatever the outcome of the calls before.
C4_RoundRobin ==
    /\ \A i \in 1..Len(call_log) : call_log[i] = (i - 1) % NumKeys
    /\ api_key_cycle = Len(call_log) % NumKeys

\* C4 witness: the pool has wrapped around while two requests at different
\* endpoints were interleaved, one of them rate-limited, one failed otherwise.
C4_Witness ==
    /\ Len(call_log) > NumKeys
    /\ \E r1, r2 \in Requests :
          /\ req[r1].ep = "analyze" /\ req[r2].ep = "analyze_insights"
          /\ Len(req[r1].keys) >= 2 /\ Len(req[r2].keys) >= 1
          /\ req[r1].sleeps >= 1
          /\ req[r2].signal = "raise"

\* C9: with at least 2 keys, the attempt that follows a rate-limited attempt
\* of the same request is configured with a different key, also when other
\* requests call the model during the cooldown.
C9_RetrySwitchesKey ==
    NumKeys >= 2 =>
        \A r \in Requests :
            \A i \in 1..(Len(req[r].keys) - 1) : req[r].keys[i + 1] # req[r].keys[i]

\* the form of an amount: optional minus, digits (plain, or grouped in
\* thousands by commas), optional fraction of exactly two digits
PlainAmount(s) ==
    \E m \in 0..1, d \in 1..Len(s), f \in {0, 3} :
        /\ Len(s) = m + d + f
        /\ m = 1 => s[1] = "-"
        /\ AllDigits(s, m + 1, m + d)
        /\ f = 3 => s[m + d + 1] = "." /\ AllDigits(s, m + d + 2, m + d + 3)

GroupedAmount(s) ==
    \E m \in 0..1, d \in 1..3, g \in 1..(Len(s) \div 4), f \in {0, 3} :
        /\ Len(s) = m + d + 4 * g + f
        /\ m = 1 => s[1] = "-"
        /\ AllDigits(s, m + 1, m + d)
        /\ \A k \in 0..(g - 1) :
              /\ s[m + d + 4 * k + 1] = ","
              /\ AllDigits(s, m + d + 4 * k + 2, m + d + 4 * k + 4)
        /\ f = 3 => /\ s[m + d + 4 * g + 1] = "."
                    /\ AllDigits(s, m + d + 4 * g + 2, m + d + 4 * g + 3)

NonNumeric(s) == s = <<>> \/ s = <<"-">> \/ \A i \in 1..Len(s) : ~IsDigit(s[i])

\* C5: is_amount is true for every string made of an optional minus sign, one
\* or more digits of any length, with or without thousands separators, and an
\* optional fraction of exactly two digits; it is false for non-numeric
\* strings, the empty string and "-".
C5_AmountForm ==
    verdict # "none" =>
        /\ (PlainAmount(text) \/ GroupedAmount(text)) => verdict = "true"
        /\ NonNumeric(text) => verdict = "false"

\* C6: every retained record has a transaction date that passes is_date and a
\* balance that passes is_amount, and was built from a table row of at least
\* 8 cells, none absent, or from a text group of at least 8 lines.
C6_RetainedValid ==
    /\ Len(origin) = Len(transactions)
    /\ \A i \in 1..Len(transactions) :
          /\ is_date(transactions[i].Transaction_Date)
          /\ is_amount(transactions[i].Balance)
          /\ Len(origin[i].cells) >= 8
          /\ origin[i].kind = "table" =>
                /\ \A k \in 1..Len(origin[i].cells) : origin[i].cells[k] # None
                /\ transactions[i].Transaction_Date = strip(origin[i].cells[3])
                /\ transactions[i].Balance = strip(origin[i].cells[8])
          /\ origin[i].kind = "text" =>
                /\ transactions[i].Transaction_Date = origin[i].cells[3]
                /\ transactions[i].Balance = origin[i].cells[Len(origin[i].cells)]

\* C6 witness: records of both branches are retained and the row read last,
\* which has an absent cell, was not.
C6_Witness ==
    /\ \E i, j \in 1..Len(origin) : origin[i].kind = "table" /\ origin[j].kind = "text"
    /\ row = [BaseRow EXCEPT ![1] = None]
    /\ \A i \in 1..Len(origin) : origin[i].cells # row
    /\ pc = "returned"

OriginCells == [i \in 1..Len(origin) |-> origin[i].cells]

\* C7: a malformed, incomplete or invalid row or group is skipped: it leaves
\* the retained records unchanged and never aborts the scan, so the retained
\* sequence is, at every point of the scan and in the result, exactly the
\* valid candidates met so far in document order.
C7_BadRowsSkipped ==
    /\ [](pc \in {"page", "table", "returned"} =>
             /\ OriginCells = expected
             /\ Len(transactions) = Len(expected))
    /\ [][pc' = "failed" => (rows_read' = rows_read /\ page_num' = page_num)]_vars

\* C7 witness: the scan returned two pages' valid records although the row
\* read last was invalid.
C7_Witness ==
    /\ pc = "returned"
    /\ page_num = 2
    /\ Len(transactions) >= 2
    /\ row # <<>> /\ ~ValidRow(row)
    /\ rows_read >= 2

\* C8: on every text page the groups are exactly: each starts at a trimmed
\* digits-only line and holds it and the following non-empty trimmed lines up
\* to the next digits-only line or the end of the page; lines before the first
\* digits-only line are in no group, no group holds lines of two pages, and
\* every group is closed and evaluated exactly once.
C8_TextGroups ==
    LET G == GroupsOf(lines) IN
    /\ pc = "text" =>
          IF G = <<>>
          THEN closed = <<>> /\ ~current_transaction
          ELSE /\ current_transaction
               /\ closed = SubSeq(G, 1, Len(G) - 1)
               /\ transaction_data = G[Len(G)]
    /\ (pc = "page" /\ page_num > 0) => closed = G

\* C8 witness: the second page is over; it had a line before its first serial
\* line, a blank line and two groups.
C8_Witness ==
    /\ pc = "page"
    /\ page_num = 2
    /\ Len(closed) >= 2
    /\ lines[1] = DateText
    /\ \E i \in 1..Len(lines) : lines[i] = BlankLine

CellOk(c) == c = <<>> \/ float_ok(replace_commas(c))

\* C10: the output file is produced iff the retained sequence is non-empty
\* and every retained withdrawal and deposit cell is empty or parseable as a
\* number once its commas are removed.
C10_FileWritten ==
    pc = "done" =>
        (file = "written" <=>
            /\ transactions # <<>>
            /\ \A i \in 1..Len(transactions) :
                  /\ CellOk(transactions[i].Withdrawal_Amount)
                  /\ CellOk(transactions[i].Deposit_Amount))

\* C10 witness: two records were retained, one of them with an unparseable
\* withdrawal cell, and no file was written.
C10_Witness ==
    /\ pc = "done"
    /\ file = "none"
    /\ Len(transactions) >= 2
    /\ \E i, j \in 1..Len(transactions) :
          /\ transactions[i].Withdrawal_Amount = Dash
          /\ transactions[j].Withdrawal_Amount = <<>>

====
